---- MODULE Spec2Model ----
(***************************************************************************)
(* Spotify Explorer (src/app.py): the memoised CSV loader load_spotify,   *)
(* the module-level facts derived from the loaded frame, the filter       *)
(* helper filter_data and the two Dash callbacks update_artist_options    *)
(* and update_figures.                                                     *)
(*                                                                         *)
(* Text is a sequence of one-character strings.  Numbers are fixed-point  *)
(* with one binary fractional digit: the number x is held as 2*x, so that *)
(* a fractional year such as 2000.5 and its cast to int are both          *)
(* representable.  A cell of a frame is a record [t, s, v]: text (t="s"), *)
(* a number (t="n") or a missing value NaN (t="na").                      *)
(***************************************************************************)
EXTENDS Integers, Sequences, FiniteSets, TLC

VARIABLES
    file,    \* what ./data holds for this process run
    cache,   \* the single slot of lru_cache(maxsize=1) around load_spotify
    reads,   \* how many times pd.read_csv has run
    pc,      \* position of each caller of load_spotify
    frame,   \* each caller's local variable df inside load_spotify
    ret,     \* what each caller's last call of load_spotify produced
    app,     \* position of the Dash application
    df,      \* module global df (line 78)
    facts,   \* module globals _available_metrics, default_metric, year_min, year_max
    req,     \* the callback invocation being answered
    resp     \* what that invocation produced

vars == <<file, cache, reads, pc, frame, ret, app, df, facts, req, resp>>

loadVars == <<cache, reads, pc, frame, ret>>
appVars == <<app, df, facts, req, resp>>

(***************************************************************************)
(* Bounds of the model.                                                    *)
(***************************************************************************)
MaxRows == 2
MaxThreads == 2
MaxReads == 3

Threads == 1..MaxThreads

(***************************************************************************)
(* Cells and text.                                                         *)
(***************************************************************************)
Str(s) == [t |-> "s", s |-> s, v |-> 0]
Num(x) == [t |-> "n", s |-> <<>>, v |-> x]
NaN == [t |-> "na", s |-> <<>>, v |-> 0]

\* the whole number n in the fixed-point representation
FP(n) == 2 * n

\* Python's None; no text equals it because text is made of single characters
None == <<"None">>

IsSpace(c) == c = " "

\* str.lower on one character of the alphabet
LowerChar(c) == IF c = "A" THEN "a" ELSE IF c = "B" THEN "b" ELSE c

\* str.lower
Lower(s) == [i \in 1..Len(s) |-> LowerChar(s[i])]

RECURSIVE LStrip(_)
LStrip(s) == IF s # <<>> /\ IsSpace(Head(s)) THEN LStrip(Tail(s)) ELSE s

RECURSIVE RStrip(_)
RStrip(s) ==
    IF s # <<>> /\ IsSpace(s[Len(s)]) THEN RStrip(SubSeq(s, 1, Len(s) - 1)) ELSE s

\* str.strip
Strip(s) == RStrip(LStrip(s))

\* astype(str) of one cell of a text column: a missing value becomes "nan"
AsTypeStr(c) == IF c.t = "na" THEN Str(<<"n", "a", "n">>) ELSE Str(c.s)

\* pd.to_numeric(errors="coerce") of one cell: text that is no number becomes NaN
ToNumeric(c) == IF c.t = "n" THEN c ELSE NaN

\* astype(int) of one cell: truncation of the fractional part
AsTypeInt(c) == Num((c.v \div 2) * 2)

Reverse(s) == [i \in 1..Len(s) |-> s[Len(s) + 1 - i]]

Head_n(s, n) == SubSeq(s, 1, IF Len(s) < n THEN Len(s) ELSE n)

(***************************************************************************)
(* Columns.                                                                *)
(***************************************************************************)
needed == <<"artist_name", "track_name", "year", "danceability", "energy",
            "valence", "tempo">>

neededSet == {needed[i] : i \in 1..Len(needed)}

NumericCols == {"year", "popularity", "danceability", "energy", "valence", "tempo",
                "acousticness", "speechiness", "instrumentalness", "liveness",
                "loudness"}

YearLo == 1950
YearHi == 2030

(***************************************************************************)
(* What ./data can hold: no candidate file at all, or a CSV with some set *)
(* of columns and a few rows.  A raw cell is the text of a CSV field that *)
(* reads as a number (t="n"), any other text (t="s") or an empty field.   *)
(***************************************************************************)
AllCols == neededSet \cup {"popularity"}

RawRow(a, tr, y, e, tp, p) ==
    [c \in AllCols |->
        CASE c = "artist_name" -> a
          [] c = "track_name" -> tr
          [] c = "year" -> y
          [] c = "energy" -> e
          [] c = "tempo" -> tp
          [] c = "popularity" -> p
          [] OTHER -> Num(FP(1))]

RawRows ==
    { RawRow(Str(<<" ", "a">>), Str(<<"a", " ">>), Num(FP(2000)), Num(1), Num(FP(90)), Num(FP(5))),
      RawRow(Str(<<"b">>), Str(<<"A", "b">>), Num(FP(2001)), Num(2), Num(FP(120)), Num(FP(5))),
      RawRow(Str(<<"a">>), Str(<<"b">>), Num(FP(2000) + 1), Num(1), Num(FP(90)), NaN),
      RawRow(NaN, Str(<<"a">>), Num(FP(YearLo)), Num(0), Num(FP(60)), Str(<<"a">>)),
      RawRow(Str(<<"b">>), Str(<<"b">>), Num(FP(YearLo) - 1), Num(1), Num(FP(90)), Num(FP(9))),
      RawRow(Str(<<"b">>), NaN, Num(FP(YearHi) + 1), Num(1), Num(FP(90)), Num(FP(9))),
      RawRow(Str(<<"a">>), Str(<<"a">>), Str(<<"a">>), Num(1), Num(FP(90)), Num(FP(9))),
      RawRow(Str(<<"a">>), Str(<<" ">>), Num(FP(YearHi)), Str(<<"b">>), NaN, Num(FP(9))) }

ColSets == { neededSet,
             AllCols,
             AllCols \ {"tempo"} }

Project(r, cols) == [c \in cols |-> r[c]]

SeqsUpTo(S, n) == UNION {[1..k -> S] : k \in 0..n}

NoFile == [exists |-> FALSE, cols |-> {}, rows |-> <<>>]

Files ==
    {NoFile} \cup
    { [exists |-> TRUE, cols |-> cols,
       rows |-> [i \in 1..Len(rs) |-> Project(rs[i], cols)]] :
         cols \in ColSets, rs \in SeqsUpTo(RawRows, MaxRows) }

(***************************************************************************)
(* load_spotify, lines 24-75.  A frame is [kind, id, cols, rows]; a row   *)
(* is [idx, c]: its index label (the position in the file) and its cells. *)
(* id tells two DataFrame objects apart: it is the number of the read     *)
(* that produced the object.                                               *)
(***************************************************************************)
NoFrame == [kind |-> "none", id |-> 0, cols |-> {}, rows |-> <<>>]

Raised(e) == [kind |-> e, id |-> 0, cols |-> {}, rows |-> <<>>]

Frame(id, cols, rows) == [kind |-> "table", id |-> id, cols |-> cols, rows |-> rows]

\* pd.read_csv, line 47
read_csv(f, id) ==
    Frame(id, f.cols, [i \in 1..Len(f.rows) |-> [idx |-> i - 1, c |-> f.rows[i]]])

\* line 52
missing(cols) == SelectSeq(needed, LAMBDA c : c \notin cols)

\* the row r with its cells replaced; the index label stays
WithCells(r, cells) == [idx |-> r.idx, c |-> cells]

\* lines 58-59
StripTextCell(k, c) ==
    IF k \in {"artist_name", "track_name"}
    THEN Str(Strip(AsTypeStr(c).s))
    ELSE c

StripText(rows) ==
    [i \in 1..Len(rows) |->
        WithCells(rows[i],
                  [k \in DOMAIN rows[i].c |-> StripTextCell(k, rows[i].c[k])])]

\* lines 62-65
CoerceCell(k, c) == IF k \in NumericCols THEN ToNumeric(c) ELSE c

Coerce(rows) ==
    [i \in 1..Len(rows) |->
        WithCells(rows[i],
                  [k \in DOMAIN rows[i].c |-> CoerceCell(k, rows[i].c[k])])]

\* Series.between(left, right), both ends inclusive; NaN is never between
between(c, left, right) == c.t = "n" /\ FP(left) <= c.v /\ c.v <= FP(right)

\* a cleanup that keeps every year
YearFilter_none(rows) == rows

\* line 68
YearFilter(rows) == SelectSeq(rows, LAMBDA r : between(r.c["year"], YearLo, YearHi))

\* line 71
dropna(rows, subset) == SelectSeq(rows, LAMBDA r : \A k \in subset : r.c[k].t # "na")

\* line 74
CastYearCell(k, c) == IF k = "year" THEN AsTypeInt(c) ELSE c

CastYear(rows) ==
    [i \in 1..Len(rows) |->
        WithCells(rows[i],
                  [k \in DOMAIN rows[i].c |-> CastYearCell(k, rows[i].c[k])])]

\* lines 56-75
Clean(rows) == CastYear(dropna(YearFilter(Coerce(StripText(rows))), neededSet))

\* the whole body of load_spotify run on file f as read number id
LoadBody(f, id) ==
    IF ~f.exists THEN Raised("FileNotFoundError")
    ELSE IF missing(f.cols) # <<>> THEN Raised("ValueError")
    ELSE Frame(id, f.cols, Clean(read_csv(f, id).rows))

(***************************************************************************)
(* Callers of load_spotify.  functools.lru_cache looks the key up, calls  *)
(* the function on a miss without holding any lock, and afterwards stores *)
(* the result unless the key has been stored meanwhile; the caller gets   *)
(* the result of its own call.  An exception is not cached.               *)
(***************************************************************************)
InFlight(t) == pc[t] \in {"body", "clean", "store"}

\* the wrapper's lookup, line 23
Lookup(t) ==
    /\ pc[t] \in {"idle", "done"}
    /\ IF cache.kind = "table"
       THEN /\ pc' = [pc EXCEPT ![t] = "done"]
            /\ ret' = [ret EXCEPT ![t] = cache]
       ELSE /\ pc' = [pc EXCEPT ![t] = "body"]
            /\ ret' = [ret EXCEPT ![t] = NoFrame]
    /\ UNCHANGED <<file, cache, reads, frame>>
    /\ UNCHANGED appVars

\* lines 37-48
ReadCsv(t) ==
    /\ pc[t] = "body"
    /\ IF ~file.exists
       THEN /\ pc' = [pc EXCEPT ![t] = "done"]
            /\ ret' = [ret EXCEPT ![t] = Raised("FileNotFoundError")]
            /\ UNCHANGED <<reads, frame>>
       ELSE /\ reads < MaxReads
            /\ reads' = reads + 1
            /\ frame' = [frame EXCEPT ![t] = read_csv(file, reads + 1)]
            /\ pc' = [pc EXCEPT ![t] = "clean"]
            /\ UNCHANGED ret
    /\ UNCHANGED <<file, cache>>
    /\ UNCHANGED appVars

\* lines 50-75
ValidateAndClean(t) ==
    /\ pc[t] = "clean"
    /\ IF missing(frame[t].cols) # <<>>
       THEN /\ pc' = [pc EXCEPT ![t] = "done"]
            /\ ret' = [ret EXCEPT ![t] = Raised("ValueError")]
            /\ frame' = [frame EXCEPT ![t] = NoFrame]
       ELSE /\ pc' = [pc EXCEPT ![t] = "store"]
            /\ frame' = [frame EXCEPT ![t] =
                            Frame(frame[t].id, frame[t].cols, Clean(frame[t].rows))]
            /\ UNCHANGED ret
    /\ UNCHANGED <<file, cache, reads>>
    /\ UNCHANGED appVars

\* a wrapper that forgets to keep the result
Store_nocache(t) ==
    /\ pc[t] = "store"
    /\ cache' = cache
    /\ ret' = [ret EXCEPT ![t] = frame[t]]
    /\ frame' = [frame EXCEPT ![t] = NoFrame]
    /\ pc' = [pc EXCEPT ![t] = "done"]
    /\ UNCHANGED <<file, reads>>
    /\ UNCHANGED appVars

\* the wrapper after the call returned, line 23
Store(t) ==
    /\ pc[t] = "store"
    /\ cache' = IF cache.kind = "table" THEN cache ELSE frame[t]
    /\ ret' = [ret EXCEPT ![t] = frame[t]]
    /\ frame' = [frame EXCEPT ![t] = NoFrame]
    /\ pc' = [pc EXCEPT ![t] = "done"]
    /\ UNCHANGED <<file, reads>>
    /\ UNCHANGED appVars

\* a call that starts while no other call is in progress
LookupSeq(t) ==
    /\ \A u \in Threads : ~InFlight(u)
    /\ Lookup(t)

(***************************************************************************)
(* Module level of app.py, lines 78-103: the one call of load_spotify at  *)
(* import and the facts derived from the frame.                            *)
(***************************************************************************)
possible_metrics == <<"danceability", "energy", "valence", "tempo", "acousticness",
                      "speechiness", "instrumentalness", "liveness", "loudness",
                      "popularity">>

\* line 85
available_metrics(cols) == SelectSeq(possible_metrics, LAMBDA m : m \in cols)

InSeq(x, s) == \E i \in 1..Len(s) : s[i] = x

\* line 99
default_metric(metrics) ==
    IF InSeq("danceability", metrics) THEN "danceability" ELSE metrics[1]

Years(rows) == {rows[i].c["year"].v : i \in 1..Len(rows)}

Min(S) == CHOOSE x \in S : \A y \in S : x <= y

Max(S) == CHOOSE x \in S : \A y \in S : x >= y

NoFacts == [metrics |-> <<>>, default_metric |-> "", year_min |-> 0, year_max |-> 0]

\* lines 85-103, for a frame that has rows
Facts(d) ==
    [metrics |-> available_metrics(d.cols),
     default_metric |-> default_metric(available_metrics(d.cols)),
     year_min |-> Min(Years(d.rows)),
     year_max |-> Max(Years(d.rows))]

NoReq == [fn |-> "none", artist |-> None, metric |-> "", lo |-> 0, hi |-> 0,
          query |-> None]

\* import of the module: line 78 raises when the load raises, line 103 raises
\* on a frame without rows (int of NaN); either ends the process
Startup ==
    /\ app = "import"
    /\ LET r == LoadBody(file, 1) IN
         /\ reads' = IF file.exists THEN 1 ELSE 0
         /\ cache' = IF r.kind = "table" THEN r ELSE cache
         /\ df' = IF r.kind = "table" THEN r ELSE df
         /\ IF r.kind = "table" /\ r.rows # <<>>
            THEN /\ facts' = Facts(r)
                 /\ app' = "idle"
            ELSE /\ facts' = facts
                 /\ app' = "crashed"
    /\ UNCHANGED <<file, pc, frame, ret, req, resp>>

(***************************************************************************)
(* What the callbacks are called with.                                     *)
(***************************************************************************)
YearArgs == {2000, 2001}

ArtistArgs == {None, <<>>, <<"a">>, <<"b">>}

Queries == {None, <<>>, <<" ">>, <<"a">>, <<"A", " ">>, <<".">>, <<"(">>}

MetricArgs == {"energy", "popularity", "bogus"}

\* truth value of an optional text: None and "" are false
Truthy(x) == x # None /\ x # <<>>

(***************************************************************************)
(* Series.str.contains(pat) with its default regex=True: pat is compiled  *)
(* as a regular expression and searched for in every value.  On this      *)
(* alphabet "." matches any character, "(" opens a group that nothing     *)
(* closes, so that compiling raises re.error, and every other character   *)
(* matches itself.                                                         *)
(***************************************************************************)
re_compiles(pat) == ~InSeq("(", pat)

re_search(pat, s) ==
    \E i \in 0..(Len(s) - Len(pat)) :
        \A j \in 1..Len(pat) : pat[j] = "." \/ pat[j] = s[i + j]

Ok(rows) == [exc |-> "none", rows |-> rows]

Exc(e) == [exc |-> e, rows |-> <<>>]

str_contains(rows, qt) ==
    IF re_compiles(qt)
    THEN Ok(SelectSeq(rows, LAMBDA r : re_search(qt, Lower(r.c["track_name"].s))))
    ELSE Exc("re.error")

\* lines 112 and 221
YearRange(rows, lo, hi) ==
    SelectSeq(rows, LAMBDA r : r.c["year"].v >= FP(lo) /\ r.c["year"].v <= FP(hi))

\* lines 106-123
filter_data(dfin, artist, lo, hi, query_text) ==
    LET out1 == YearRange(dfin, lo, hi)
        out2 == IF Truthy(artist)
                THEN SelectSeq(out1, LAMBDA r : r.c["artist_name"].s = artist)
                ELSE out1
    IN  IF Truthy(query_text) /\ Lower(Strip(query_text)) # <<>>
        THEN str_contains(out2, Lower(Strip(query_text)))
        ELSE Ok(out2)

(***************************************************************************)
(* Sorting.  sort_values and value_counts sort with kind="quicksort",     *)
(* which pandas documents as not stable: rows with equal keys come out in *)
(* any order.  Rows whose key is NaN are put last, in their own order.    *)
(***************************************************************************)
Perms(n) == {p \in [1..n -> 1..n] : \A i, j \in 1..n : p[i] = p[j] => i = j}

Permuted(s) == {[i \in 1..Len(s) |-> s[p[i]]] : p \in Perms(Len(s))}

\* ascending=False: the keys, in result order, never go up
NonIncreasing(keys) == \A i \in 1..(Len(keys) - 1) : keys[i] >= keys[i + 1]

\* DataFrame.sort_values(col, ascending=False): every result it may give
sort_values_desc(rows, col) ==
    LET nums == SelectSeq(rows, LAMBDA r : r.c[col].t = "n")
        nans == SelectSeq(rows, LAMBDA r : r.c[col].t # "n")
        Keys(q) == [i \in 1..Len(q) |-> q[i].c[col].v]
    IN  {s \o nans : s \in {q \in Permuted(nums) : NonIncreasing(Keys(q))}}

RECURSIVE Distinct(_)
Distinct(s) ==
    IF s = <<>> THEN <<>>
    ELSE LET d == Distinct(SubSeq(s, 1, Len(s) - 1)) IN
         IF InSeq(s[Len(s)], d) THEN d ELSE Append(d, s[Len(s)])

ArtistsOf(rows) == [i \in 1..Len(rows) |-> rows[i].c["artist_name"].s]

CountOf(names, a) == Cardinality({i \in 1..Len(names) : names[i] = a})

\* Series.value_counts(): every result it may give, as (artist, count) pairs
value_counts(names) ==
    LET groups == [i \in 1..Len(Distinct(names)) |->
                      [artist |-> Distinct(names)[i],
                       count |-> CountOf(names, Distinct(names)[i])]]
        Keys(q) == [i \in 1..Len(q) |-> q[i].count]
    IN  {q \in Permuted(groups) : NonIncreasing(Keys(q))}

(***************************************************************************)
(* update_artist_options, lines 215-234.                                   *)
(***************************************************************************)
OptionsMax == 300

ArtistOptions(counts, current_artist) ==
    LET options == [i \in 1..Len(Head_n(counts, OptionsMax)) |-> counts[i].artist]
    IN  [exc |-> "none",
         options |-> options,
         value |-> IF Truthy(current_artist) /\ InSeq(current_artist, options)
                   THEN current_artist ELSE None]

\* everything one call may return
artist_options_results(rows, lo, hi, query_text, current_artist) ==
    LET d0 == YearRange(rows, lo, hi)
        d == IF Truthy(query_text) /\ Lower(Strip(query_text)) # <<>>
             THEN str_contains(d0, Lower(Strip(query_text)))
             ELSE Ok(d0)
    IN  IF d.exc # "none"
        THEN {[exc |-> d.exc, options |-> <<>>, value |-> None]}
        ELSE {ArtistOptions(counts, current_artist) :
                counts \in value_counts(ArtistsOf(d.rows))}

update_artist_options ==
    /\ app = "idle"
    /\ \E lo \in YearArgs, hi \in YearArgs, query_text \in Queries,
          current_artist \in ArtistArgs :
         /\ req' = [fn |-> "update_artist_options", artist |-> current_artist,
                    metric |-> "", lo |-> lo, hi |-> hi, query |-> query_text]
         /\ resp' \in artist_options_results(df.rows, lo, hi, query_text, current_artist)
    /\ app' = "returned"
    /\ UNCHANGED <<file, df, facts>>
    /\ UNCHANGED loadVars

(***************************************************************************)
(* update_figures, lines 246-316.                                          *)
(***************************************************************************)
ScatterMax == 5000
ScatterSeed == 7
TopMax == 15

ScatterCols == {"track_name", "artist_name", "year", "energy", "tempo", "popularity"}

\* a figure with data, and the figure that only carries the no-data title
Fig(data) == [nodata |-> FALSE, data |-> data]

NoData == [nodata |-> TRUE, data |-> <<>>]

\* a figure the call did not get to build
NotBuilt == [nodata |-> FALSE, data |-> <<>>]

RECURSIVE Ascending(_)
Ascending(S) == IF S = {} THEN <<>> ELSE <<Min(S)>> \o Ascending(S \ {Min(S)})

RECURSIVE SumOf(_, _)
SumOf(rows, col) ==
    IF rows = <<>> THEN 0 ELSE Head(rows).c[col].v + SumOf(Tail(rows), col)

\* line 257: per year the mean of metric over its non-NaN values, held as the
\* sum and the number of values (no value: the mean is NaN); years ascending
trend(rows, metric) ==
    LET ys == Ascending(Years(rows))
        vals(y) == SelectSeq(rows, LAMBDA r : r.c["year"].v = y /\ r.c[metric].t = "n")
    IN  [i \in 1..Len(ys) |->
            [year |-> ys[i], sum |-> SumOf(vals(ys[i]), metric), n |-> Len(vals(ys[i]))]]

\* DataFrame.sample(n, random_state): n rows at distinct positions; with a fixed
\* random_state the positions depend on nothing but the number of rows and n
sample(rows, n, random_state) ==
    LET pos == CHOOSE p \in [1..n -> 1..Len(rows)] :
                   \A i, j \in 1..n : p[i] = p[j] => i = j
    IN  [i \in 1..n |-> rows[pos[i]]]

\* lines 274-276
scatter_rows(rows) ==
    LET kept == dropna(rows, ScatterCols) IN
    IF Len(kept) > ScatterMax THEN sample(kept, ScatterMax, ScatterSeed) ELSE kept

\* line 293
rank_metric(cols, metric) == IF "popularity" \in cols THEN "popularity" ELSE metric

FiguresRaised(e, dff) ==
    [exc |-> e, dff |-> dff, trend |-> NotBuilt, scatter |-> NotBuilt,
     rank_metric |-> "", top |-> <<>>, bar |-> NotBuilt]

\* everything one call may return; dff and top are the locals of that name
figures_results(d, artist, metric, lo, hi, query_text) ==
    LET f == filter_data(d.rows, artist, lo, hi, query_text)
        dff == f.rows
        rm == rank_metric(d.cols, metric)
    IN  IF f.exc # "none" THEN {FiguresRaised(f.exc, <<>>)}
        ELSE IF Len(dff) > 0 /\ metric \notin d.cols THEN {FiguresRaised("KeyError", dff)}
        ELSE IF ~(ScatterCols \subseteq d.cols) THEN {FiguresRaised("KeyError", dff)}
        ELSE {[exc |-> "none",
               dff |-> dff,
               trend |-> IF Len(dff) > 0 THEN Fig(trend(dff, metric)) ELSE NoData,
               scatter |-> IF Len(scatter_rows(dff)) > 0
                           THEN Fig(scatter_rows(dff)) ELSE NoData,
               rank_metric |-> rm,
               top |-> Head_n(sorted, TopMax),
               bar |-> IF Len(sorted) > 0
                       THEN Fig(Reverse(Head_n(sorted, TopMax))) ELSE NoData] :
                 sorted \in sort_values_desc(dff, rm)}

FiguresReturn(artist, metric, lo, hi, query_text) ==
    /\ req' = [fn |-> "update_figures", artist |-> artist, metric |-> metric,
               lo |-> lo, hi |-> hi, query |-> query_text]
    /\ resp' \in figures_results(df, artist, metric, lo, hi, query_text)
    /\ app' = "returned"

\* a callback that filters the global frame in place
update_figures_inplace ==
    /\ app = "idle"
    /\ \E artist \in ArtistArgs, metric \in MetricArgs, lo \in YearArgs,
          hi \in YearArgs, query_text \in Queries :
         FiguresReturn(artist, metric, lo, hi, query_text)
    /\ df' = [df EXCEPT !.rows = resp'.dff]
    /\ UNCHANGED <<file, facts>>
    /\ UNCHANGED loadVars

update_figures ==
    /\ app = "idle"
    /\ \E artist \in ArtistArgs, metric \in MetricArgs, lo \in YearArgs,
          hi \in YearArgs, query_text \in Queries :
         FiguresReturn(artist, metric, lo, hi, query_text)
    /\ UNCHANGED <<file, df, facts>>
    /\ UNCHANGED loadVars

\* Dash sends the outputs to the browser and the worker is free again
Respond ==
    /\ app = "returned"
    /\ app' = "idle"
    /\ req' = NoReq
    /\ resp' = [exc |-> "none"]
    /\ UNCHANGED <<file, df, facts>>
    /\ UNCHANGED loadVars

(***************************************************************************)
(* Specifications.                                                         *)
(***************************************************************************)
InitCommon ==
    /\ file \in Files
    /\ cache = NoFrame
    /\ reads = 0
    /\ pc = [t \in Threads |-> "idle"]
    /\ frame = [t \in Threads |-> NoFrame]
    /\ ret = [t \in Threads |-> NoFrame]
    /\ df = NoFrame
    /\ facts = NoFacts
    /\ req = NoReq
    /\ resp = [exc |-> "none"]

Init == InitCommon /\ app = "import"

Next ==
    \/ Startup
    \/ update_artist_options
    \/ update_figures
    \/ Respond

\* the application: import, then callbacks
Spec == Init /\ [][Next]_vars

InitLoad == InitCommon /\ app = "off"

NextLoad ==
    \E t \in Threads :
        \/ Lookup(t)
        \/ ReadCsv(t)
        \/ ValidateAndClean(t)
        \/ Store(t)

\* callers of load_spotify that may overlap
SpecLoad == InitLoad /\ [][NextLoad]_vars

NextSeq ==
    \E t \in Threads :
        \/ LookupSeq(t)
        \/ ReadCsv(t)
        \/ ValidateAndClean(t)
        \/ Store(t)

\* callers of load_spotify one after the other
SpecSeq == InitLoad /\ [][NextSeq]_vars

(***************************************************************************)
(* Properties.                                                             *)
(***************************************************************************)
Returned(t) == pc[t] = "done" /\ ret[t].kind = "table"

\* C1: over calls of load_spotify made one after the other, once a call has
\* returned a table the file has been read exactly once, and every call that
\* has returned a table returned the instance made by that first read.
C1_LoadedOnce ==
    (\E t \in Threads : Returned(t)) =>
        /\ reads = 1
        /\ \A t \in Threads : Returned(t) => ret[t].id = 1 /\ ret[t] = cache

\* two calls have returned a table, the second one from the cache
C1_Witness ==
    \E t, u \in Threads : t # u /\ Returned(t) /\ Returned(u) /\ reads = 1

\* C2: when callers of load_spotify overlap, the file is still read exactly
\* once and all callers obtain the same table.
C2_SerializedFirstAccess ==
    \A t, u \in Threads :
        Returned(t) /\ Returned(u) => reads = 1 /\ ret[t].id = ret[u].id

Untrimmed(s) == s # <<>> /\ (IsSpace(s[1]) \/ IsSpace(s[Len(s)]))

CanonicalRow(r) ==
    /\ r.c["year"].t = "n"
    /\ r.c["year"].v % 2 = 0
    /\ FP(YearLo) <= r.c["year"].v /\ r.c["year"].v <= FP(YearHi)
    /\ \A k \in neededSet : r.c[k].t # "na"
    /\ \A k \in {"artist_name", "track_name"} : r.c[k].t = "s" /\ ~Untrimmed(r.c[k].s)

\* the source row is one the cleanup may keep: numeric year in range and
\* numeric required metrics
SourceRowFit(raw) ==
    /\ raw["year"].t = "n"
    /\ 2 * YearLo <= raw["year"].v /\ raw["year"].v <= 2 * YearHi
    /\ \A k \in {"danceability", "energy", "valence", "tempo"} : raw[k].t = "n"

\* C3: for a file with the seven required columns the load returns a table,
\* every row of it has an integer year in 1950..2030, no missing value in a
\* required column and trimmed artist_name and track_name, and no source row
\* with a non-numeric or out-of-range year or a non-numeric required metric
\* is in it.
C3_CanonicalTable ==
    \A t \in Threads :
        pc[t] = "done" =>
            /\ (file.exists /\ neededSet \subseteq file.cols) => ret[t].kind = "table"
            /\ ret[t].kind = "table" =>
                 \A i \in 1..Len(ret[t].rows) :
                     /\ CanonicalRow(ret[t].rows[i])
                     /\ SourceRowFit(file.rows[ret[t].rows[i].idx + 1])

\* a load that kept a row whose names had to be trimmed and whose year had a
\* fractional part to cut, or dropped a row
C3_Witness ==
    \E t \in Threads :
        /\ Returned(t)
        /\ Len(ret[t].rows) > 0
        /\ Len(ret[t].rows) < Len(file.rows)
        /\ \E i \in 1..Len(ret[t].rows) :
              LET raw == file.rows[ret[t].rows[i].idx + 1] IN
                 (raw["artist_name"].t = "s" /\ Untrimmed(raw["artist_name"].s))
                 \/ raw["year"].v % 2 = 1

Figures == app = "returned" /\ req.fn = "update_figures"

Blank(q) == q = None \/ Strip(q) = <<>>

Contains(sub, s) ==
    \E i \in 0..(Len(s) - Len(sub)) : SubSeq(s, i + 1, i + Len(sub)) = sub

\* the filter of the specification; the search text is taken without its
\* surrounding whitespace
Passes(r, artist, lo, hi, q) ==
    /\ 2 * lo <= r.c["year"].v /\ r.c["year"].v <= 2 * hi
    /\ (artist = None \/ artist = <<>> \/ r.c["artist_name"].s = artist)
    /\ (Blank(q) \/ Contains(Lower(Strip(q)), Lower(r.c["track_name"].s)))

Matching(rows, artist, lo, hi, q) ==
    SelectSeq(rows, LAMBDA r : Passes(r, artist, lo, hi, q))

\* C4: filter_data keeps exactly the rows in the year range, of the artist
\* if one is given, whose lowercased track name contains the lowercased
\* search text as a literal substring if one is given, in table order.
C4_FilterLiteral ==
    Figures =>
        /\ resp.exc # "re.error"
        /\ resp.dff = Matching(df.rows, req.artist, req.lo, req.hi, req.query)

HasView == Figures /\ resp.exc # "re.error" /\ InSeq(req.metric, facts.metrics)

\* the rank value of a row, NaN below every number
RankKey(r, col) == IF r.c[col].t = "n" THEN r.c[col].v ELSE -1000000

\* C5: for every filtered view the ranking has at most 15 rows of the view,
\* non-increasing by the rank column, rows of equal rank in view order, and
\* no row left out ranks strictly above a row returned.
C5_TopStable ==
    HasView =>
        /\ resp.exc = "none"
        /\ Len(resp.top) <= 15
        /\ \A i \in 1..Len(resp.top) : InSeq(resp.top[i], resp.dff)
        /\ \A i, j \in 1..Len(resp.top) :
              i < j =>
                 /\ RankKey(resp.top[i], resp.rank_metric)
                       >= RankKey(resp.top[j], resp.rank_metric)
                 /\ RankKey(resp.top[i], resp.rank_metric)
                       = RankKey(resp.top[j], resp.rank_metric)
                    => resp.top[i].idx < resp.top[j].idx
        /\ \A i \in 1..Len(resp.dff) :
              ~InSeq(resp.dff[i], resp.top) =>
                 \A j \in 1..Len(resp.top) :
                    RankKey(resp.dff[i], resp.rank_metric)
                       <= RankKey(resp.top[j], resp.rank_metric)

FirstAt(names, a) == Min({i \in 1..Len(names) : names[i] = a})

\* C6: update_artist_options returns at most 300 artists, those of the rows
\* passing the year range and the search text, non-increasing by row count,
\* artists of equal count in order of first occurrence in the table.
C6_ArtistRanking ==
    (app = "returned" /\ req.fn = "update_artist_options") =>
        LET names == ArtistsOf(Matching(df.rows, None, req.lo, req.hi, req.query))
            opts == resp.options
        IN  /\ resp.exc = "none"
            /\ Len(opts) <= 300
            /\ \A i \in 1..Len(opts) : InSeq(opts[i], names)
            /\ Len(opts) < 300 => \A i \in 1..Len(names) : InSeq(names[i], opts)
            /\ \A i, j \in 1..Len(opts) :
                  i < j =>
                     /\ CountOf(names, opts[i]) >= CountOf(names, opts[j])
                     /\ CountOf(names, opts[i]) = CountOf(names, opts[j])
                        => FirstAt(names, opts[i]) < FirstAt(names, opts[j])

\* C7: for every filtered view the scatter step keeps the rows without a
\* missing value in its columns, all of them when there are at most 5000 and
\* otherwise 5000 distinct ones.
C7_ScatterRows ==
    HasView =>
        LET kept == SelectSeq(resp.dff,
                        LAMBDA r : \A k \in ScatterCols \cap df.cols : r.c[k].t # "na")
            got == resp.scatter.data
        IN  /\ resp.exc = "none"
            /\ Len(kept) <= 5000 => got = kept
            /\ Len(kept) > 5000 =>
                  /\ Len(got) = 5000
                  /\ \A i \in 1..Len(got) : InSeq(got[i], kept)
                  /\ \A i, j \in 1..Len(got) : got[i] = got[j] => i = j

\* C8: when no row matches the filter, an inverted year range included,
\* update_figures returns an empty view and the no-data result for trend,
\* scatter and ranked table, for any metric among the available ones.
C8_NoDataResult ==
    (/\ Figures
     /\ InSeq(req.metric, facts.metrics)
     /\ Matching(df.rows, req.artist, req.lo, req.hi, req.query) = <<>>) =>
        /\ resp.exc = "none"
        /\ resp.dff = <<>>
        /\ resp.trend = NoData
        /\ resp.scatter = NoData
        /\ resp.bar = NoData

\* C9: once the table is loaded no callback changes it: df is the frame the
\* load made from the file, and the available metrics, year_min and year_max
\* are the ones derived from that frame.
C9_TableUntouched ==
    app \in {"idle", "returned"} =>
        /\ df = LoadBody(file, 1)
        /\ cache = df
        /\ facts = Facts(LoadBody(file, 1))

\* update_figures has failed on a column the table does not have
C9_Witness ==
    /\ Figures
    /\ req.metric = "bogus"
    /\ resp.exc = "KeyError"
    /\ Len(resp.dff) > 0
    /\ Len(resp.dff) < Len(df.rows)

\* C10: for a metric among the available ones update_figures completes and
\* ranks by popularity when the table has that column, by the selected metric
\* when it has not.
C10_RankColumn ==
    HasView =>
        /\ resp.exc = "none"
        /\ resp.rank_metric =
              (IF "popularity" \in df.cols THEN "popularity" ELSE req.metric)

====
